---- MODULE Spec2Model ----
(***************************************************************************)
(* A model of program_11.py: the streamflow reader (ReadData), the date    *)
(* clipper (ClipData), the monthly aggregator (GetMonthlyStatistics) and   *)
(* the script that reads two stations' files and writes six figures.       *)
(*                                                                         *)
(* A table (DataFrame) is a sequence of rows [Date, Discharge].  A date is *)
(* a record [y, m, d].  A Discharge cell is [na, v]: na = TRUE is NaN.     *)
(* Discharges are integers (a fixed-point reading of the file's decimals). *)
(* Means are exact fractions [na, num, den].                               *)
(***************************************************************************)
EXTENDS Integers, Sequences, FiniteSets, TLC

VARIABLES
    args,           \* harness: the arguments of the function under check
    ret,            \* harness: the sequence of values the calls returned
    pc,             \* script: the statement about to run
    fileSystem,     \* script: what each discharge file holds
    DataDF,         \* script: dict DataDF (station -> table)
    MissingValues,  \* script: dict MissingValues (station -> count)
    annual,         \* script: Peak Flow column per station of Annual_Metrics.csv
    aamf,           \* script: tippe_aamf / wildcat_aamf
    exc,            \* script: tippe_exc / wildcat_exc with the plotted peaks
    written,        \* script: image files saved so far
    calls,          \* script: history of the calls made and tables returned
    raisedIn        \* script: the call that raised, "" while none did

harnessVars == <<args, ret>>
scriptVars == <<pc, fileSystem, DataDF, MissingValues, annual, aamf, exc,
                written, calls, raisedIn>>
vars == <<args, ret, pc, fileSystem, DataDF, MissingValues, annual, aamf, exc,
          written, calls, raisedIn>>

---------------------------------------------------------------------------
(* Bounds of the inputs. *)

MaxRows == 3
MaxPeaks == 4
MaxScriptRows == 2

YearSet == {2015, 2016}
MonthSet == {1, 2, 12}
DaySet == {1, 2}

---------------------------------------------------------------------------
(* Dates and cells. *)

MkDate(y, m, d) == [y |-> y, m |-> m, d |-> d]

DateLT(a, b) ==
    \/ a.y < b.y
    \/ a.y = b.y /\ a.m < b.m
    \/ a.y = b.y /\ a.m = b.m /\ a.d < b.d

DateLE(a, b) == a = b \/ DateLT(a, b)

NaN == [na |-> TRUE, v |-> 0]
Num(x) == [na |-> FALSE, v |-> x]

Row(date, cell) == [Date |-> date, Discharge |-> cell]

SeqsUpTo(S, n) == UNION {[1..k -> S] : k \in 0..n}

---------------------------------------------------------------------------
(* ReadData. *)

\* A line of a discharge file: a comment line, a text line (the column
\* names, the column formats) or a data line with a date and a Discharge
\* token: a number, the flag Eqp, or a standard NA marker / missing field.
CommentLine == [kind |-> "comment", Date |-> MkDate(0, 0, 0), tok |-> "NA", v |-> 0]
TextLine == [kind |-> "text", Date |-> MkDate(0, 0, 0), tok |-> "NA", v |-> 0]
DataLine(date, tok, v) == [kind |-> "data", Date |-> date, tok |-> tok, v |-> v]

\* na_values=['Eqp'] beside the parser's standard NA markers.
ParseDischarge(line) ==
    IF line.tok = "num" THEN Num(line.v) ELSE NaN

\* pd.read_csv(header=1, names=colNames, comment='#'): comment lines are
\* dropped, the lines up to and including line 1 are the header, which
\* names= replaces; the rest are rows.
read_csv(lines) ==
    LET kept == SelectSeq(lines, LAMBDA l : l.kind # "comment")
    IN  [i \in 1..(IF Len(kept) > 2 THEN Len(kept) - 2 ELSE 0) |->
            Row(kept[i + 2].Date, ParseDischarge(kept[i + 2]))]

\* A plausible slip: the screen also discards zero flow.
mask_le(T) ==
    [i \in 1..Len(T) |->
        IF ~T[i].Discharge.na /\ T[i].Discharge.v <= 0
        THEN Row(T[i].Date, NaN) ELSE T[i]]

\* DataDF['Discharge'].mask(DataDF['Discharge'] < 0, np.nan, inplace=True)
mask(T) ==
    [i \in 1..Len(T) |->
        IF ~T[i].Discharge.na /\ T[i].Discharge.v < 0
        THEN Row(T[i].Date, NaN) ELSE T[i]]

\* DataDF["Discharge"].isna().sum()
RECURSIVE isna_sum(_)
isna_sum(T) ==
    IF T = <<>> THEN 0
    ELSE (IF Head(T).Discharge.na THEN 1 ELSE 0) + isna_sum(Tail(T))

\* A plausible slip: the count taken before the gross-error screen.
ReadData_countFirst(lines) ==
    LET raw == read_csv(lines)
    IN  [DataDF |-> mask(raw), MissingValues |-> isna_sum(raw)]

ReadData(lines) ==
    LET screened == mask(read_csv(lines))
    IN  [DataDF |-> screened, MissingValues |-> isna_sum(screened)]

---------------------------------------------------------------------------
(* ClipData. *)

\* Index.searchsorted on the ascending date index: the number of rows
\* before the insertion point of x (side "left": before any equal date,
\* side "right": after it).
RECURSIVE bisect(_, _, _, _, _)
bisect(T, x, side, lo, hi) ==
    IF lo >= hi THEN lo
    ELSE LET mid == (lo + hi) \div 2
             below == IF side = "left" THEN DateLT(T[mid + 1].Date, x)
                      ELSE DateLE(T[mid + 1].Date, x)
         IN  IF below THEN bisect(T, x, side, mid + 1, hi)
             ELSE bisect(T, x, side, lo, mid)

searchsorted(T, x, side) == bisect(T, x, side, 0, Len(T))

\* A plausible slip: the end label located as the start label is, which
\* leaves the end date out.
slice_locs_openEnd(T, startDate, endDate) ==
    <<searchsorted(T, startDate, "left"), searchsorted(T, endDate, "left")>>

\* The positions of the label slice startDate:endDate, both labels
\* inclusive.
slice_locs(T, startDate, endDate) ==
    <<searchsorted(T, startDate, "left"), searchsorted(T, endDate, "right")>>

\* A plausible slip: the positional slice starts one row late.
PySlice_late(T, lo, hi) == SubSeq(T, lo + 2, hi)

\* T[lo:hi] by position, empty when lo >= hi.
PySlice(T, lo, hi) == IF lo < hi THEN SubSeq(T, lo + 1, hi) ELSE <<>>

\* A plausible slip: a reversed window is put in order before slicing.
ClipData_ordered(T, startDate, endDate) ==
    LET s == IF DateLT(endDate, startDate) THEN endDate ELSE startDate
        e == IF DateLT(endDate, startDate) THEN startDate ELSE endDate
        locs == slice_locs(T, s, e)
        clipped == PySlice(T, locs[1], locs[2])
    IN  [DataDF |-> clipped, MissingValues |-> isna_sum(clipped)]

ClipData(T, startDate, endDate) ==
    LET locs == slice_locs(T, startDate, endDate)
        clipped == PySlice(T, locs[1], locs[2])
    IN  [DataDF |-> clipped, MissingValues |-> isna_sum(clipped)]

---------------------------------------------------------------------------
(* GetMonthlyStatistics. *)

\* A fraction num/den, or NaN (the mean of nothing).
FracNaN == [na |-> TRUE, num |-> 0, den |-> 1]
Frac(n, d) == [na |-> FALSE, num |-> n, den |-> d]
FracEq(a, b) == a.na = b.na /\ (~a.na => a.num * b.den = b.num * a.den)

\* The sum and the number of the present entries of a sequence of
\* fractions, as <<sum, count>>.
RECURSIVE FracSum(_)
FracSum(fs) ==
    IF fs = <<>> THEN <<Frac(0, 1), 0>>
    ELSE LET rest == FracSum(Tail(fs))
             f == Head(fs)
         IN  IF f.na THEN rest
             ELSE <<Frac(f.num * rest[1].den + rest[1].num * f.den,
                         f.den * rest[1].den), rest[2] + 1>>

\* A mean that skips NaN and is NaN when nothing is left.
nanmean(fs) ==
    LET sc == FracSum(fs)
    IN  IF sc[2] = 0 THEN FracNaN ELSE Frac(sc[1].num, sc[1].den * sc[2])

CellFrac(c) == IF c.na THEN FracNaN ELSE Frac(c.v, 1)

\* The month-start bucket of a date, counted in months.
MonthOrd(date) == date.y * 12 + (date.m - 1)
OrdMonth(ord) == (ord % 12) + 1

\* DataDF.resample('MS')['Discharge'].mean(): one bucket for every month
\* from the first row's to the last row's, each with the mean of its
\* present discharges (NaN for a bucket with none).
resample_MS_mean(T) ==
    IF T = <<>> THEN <<>>
    ELSE LET first == MonthOrd(T[1].Date)
             last == MonthOrd(T[Len(T)].Date)
         IN  [k \in 1..(last - first + 1) |->
                 LET inBucket == SelectSeq(T, LAMBDA r : MonthOrd(r.Date) = first + k - 1)
                 IN  [ord |-> first + k - 1,
                      Discharge |-> nanmean([i \in 1..Len(inBucket) |->
                                                CellFrac(inBucket[i].Discharge)])]]

\* The elements of a set of integers in ascending order.
SortedSeq(S) ==
    [i \in 1..Cardinality(S) |->
        CHOOSE x \in S : Cardinality({y \in S : y < x}) = i - 1]

\* MoDataDF.groupby(MoDataDF.index.month).mean(): one row per calendar
\* month among the buckets, in month order, with the mean of that month's
\* present bucket means.
groupby_month_mean(monthly) ==
    LET keys == SortedSeq({OrdMonth(monthly[k].ord) : k \in 1..Len(monthly)})
    IN  [i \in 1..Len(keys) |->
            LET grp == SelectSeq(monthly, LAMBDA b : OrdMonth(b.ord) = keys[i])
            IN  [month |-> keys[i],
                 Discharge |-> nanmean([j \in 1..Len(grp) |-> grp[j].Discharge])]]

\* A plausible slip: every daily value of a calendar month pooled into one
\* mean.
GetMonthlyStatistics_pooled(T) ==
    LET keys == SortedSeq({r.month : r \in {groupby_month_mean(resample_MS_mean(T))[i] :
                              i \in 1..Len(groupby_month_mean(resample_MS_mean(T)))}})
    IN  [i \in 1..Len(keys) |->
            LET grp == SelectSeq(T, LAMBDA r : r.Date.m = keys[i])
            IN  [month |-> keys[i],
                 Discharge |-> nanmean([j \in 1..Len(grp) |-> CellFrac(grp[j].Discharge)])]]

\* A plausible slip: the rows with no value dropped from the result.
GetMonthlyStatistics_dropna(T) ==
    SelectSeq(groupby_month_mean(resample_MS_mean(T)), LAMBDA r : ~r.Discharge.na)

GetMonthlyStatistics(T) == groupby_month_mean(resample_MS_mean(T))

---------------------------------------------------------------------------
(* Figure 6: exceedance probability of the annual peak flows. *)

RECURSIVE insert_desc(_, _)
insert_desc(x, s) ==
    IF s = <<>> THEN <<x>>
    ELSE IF x >= Head(s) THEN <<x>> \o s
    ELSE <<Head(s)>> \o insert_desc(x, Tail(s))

\* Series.sort_values(ascending=False)
RECURSIVE sort_values_desc(_)
sort_values_desc(s) ==
    IF s = <<>> THEN <<>> ELSE insert_desc(Head(s), sort_values_desc(Tail(s)))

\* stats.rankdata(a, method='average'), as twice the rank: the smallest
\* value has rank 1, equal values share the mean of their ranks.
rankdata2(a) ==
    [i \in 1..Len(a) |->
        2 * Cardinality({j \in 1..Len(a) : a[j] < a[i]})
          + Cardinality({j \in 1..Len(a) : a[j] = a[i]}) + 1]

\* a[::-1]
Reversed(a) == [i \in 1..Len(a) |-> a[Len(a) + 1 - i]]

\* The points of plt.scatter(exc, peak): peak flow p at exceedance
\* probability num/den.
Exceedance(peakFlow) ==
    LET peak == sort_values_desc(peakFlow)
        rank_rev == Reversed(rankdata2(peak))
    IN  [i \in 1..Len(peak) |->
            [p |-> peak[i], num |-> rank_rev[i], den |-> 2 * (Len(peak) + 1)]]

---------------------------------------------------------------------------
(* The inputs the functions are checked on. *)

DateUniverse == {MkDate(y, m, d) : y \in YearSet, m \in MonthSet, d \in DaySet}

\* The dates of a set in ascending order.
SortedDates(S) ==
    [i \in 1..Cardinality(S) |->
        CHOOSE x \in S : Cardinality({y \in S : DateLT(y, x)}) = i - 1]

AscendingDates(D, n) ==
    {SortedDates(S) : S \in {X \in SUBSET D : Cardinality(X) <= n}}

\* The tables of at most n rows with ascending dates from D and cells
\* from C.
Tables(D, C, n) ==
    UNION {{[i \in 1..Len(ds) |-> Row(ds[i], c[i])] : c \in [1..Len(ds) -> C]} :
              ds \in AscendingDates(D, n)}

\* What a Discharge cell holds once ReadData has screened it.
ScreenedCells(V) == {NaN} \cup {Num(x) : x \in V}

\* The head of a station's file: comment lines, the column names and the
\* column formats.
Preamble == <<CommentLine, TextLine, TextLine>>

Tokens == {<<"NA", 0>>, <<"Eqp", 0>>, <<"num", -1>>, <<"num", 0>>, <<"num", 7>>}

FileLines(D, n) ==
    UNION {{Preamble \o [i \in 1..Len(ds) |-> DataLine(ds[i], t[i][1], t[i][2])] :
               t \in [1..Len(ds) -> Tokens]} : ds \in AscendingDates(D, n)}

ScriptIdle ==
    /\ pc = [at |-> "idle", i |-> 0]
    /\ fileSystem = <<>>
    /\ DataDF = <<>>
    /\ MissingValues = <<>>
    /\ annual = <<>>
    /\ aamf = <<>>
    /\ exc = <<>>
    /\ written = {}
    /\ calls = <<>>
    /\ raisedIn = ""

---------------------------------------------------------------------------
(* ReadData on every file. *)

InitReadData ==
    /\ args \in {[lines |-> f] : f \in FileLines({x \in DateUniverse : x.m = 1}, MaxRows)}
    /\ ret = <<>>
    /\ ScriptIdle

CallReadData ==
    /\ ret = <<>>
    /\ ret' = <<ReadData(args.lines)>>
    /\ UNCHANGED <<args, scriptVars>>

NextReadData == CallReadData

SpecReadData == InitReadData /\ [][NextReadData]_vars

---------------------------------------------------------------------------
(* ClipData on every table and window, and again on its own result. *)

InitClipData ==
    /\ args \in [DataDF : Tables({x \in DateUniverse : x.m = 2},
                                 ScreenedCells({0, 7}), MaxRows),
                 startDate : DateUniverse,
                 endDate : DateUniverse]
    /\ ret = <<>>
    /\ ScriptIdle

CallClipData ==
    /\ ret = <<>>
    /\ ret' = <<ClipData(args.DataDF, args.startDate, args.endDate)>>
    /\ UNCHANGED <<args, scriptVars>>

CallClipDataAgain ==
    /\ Len(ret) = 1
    /\ ret' = Append(ret, ClipData(ret[1].DataDF, args.startDate, args.endDate))
    /\ UNCHANGED <<args, scriptVars>>

NextClipData == CallClipData \/ CallClipDataAgain

SpecClipData == InitClipData /\ [][NextClipData]_vars

---------------------------------------------------------------------------
(* GetMonthlyStatistics on every table. *)

InitMonthly ==
    /\ args \in [DataDF : Tables({x \in DateUniverse : x.d = 1 \/ x.m \in {1, 2}},
                                 ScreenedCells({10, 30}), MaxRows)]
    /\ ret = <<>>
    /\ ScriptIdle

CallGetMonthlyStatistics ==
    /\ ret = <<>>
    /\ ret' = <<GetMonthlyStatistics(args.DataDF)>>
    /\ UNCHANGED <<args, scriptVars>>

NextMonthly == CallGetMonthlyStatistics

SpecMonthly == InitMonthly /\ [][NextMonthly]_vars

---------------------------------------------------------------------------
(* Figure 6's exceedance probabilities on every list of peak flows. *)

PeakSet == {3, 5, 8}

InitExceedance ==
    /\ args \in [peakFlow : SeqsUpTo(PeakSet, MaxPeaks)]
    /\ ret = <<>>
    /\ ScriptIdle

CallExceedance ==
    /\ ret = <<>>
    /\ ret' = <<Exceedance(args.peakFlow)>>
    /\ UNCHANGED <<args, scriptVars>>

NextExceedance == CallExceedance

SpecExceedance == InitExceedance /\ [][NextExceedance]_vars

---------------------------------------------------------------------------
(* The script (the __main__ block). *)

\* fileName.keys(), in the dict's order.
Files == <<"Wildcat", "Tippe">>

\* ClipData( DataDF[file], '2014-10-01', '2019-09-30' )
ClipStart == MkDate(2014, 10, 1)
ClipEnd == MkDate(2019, 9, 30)

\* dict[key] = value
Store(dict, key, value) == (key :> value) @@ dict

\* A plausible slip: the clipped table is not kept.
StoreClip_discard(dict, file, clipped) == dict

\* DataDF[file], MissingValues[file] = ClipData( DataDF[file], ... ): the
\* clipped table takes the place of the table read.
StoreClip(dict, file, clipped) == Store(dict, file, clipped)

\* A plausible slip: the figure saved inside the loop.
PlotStation_save(saved) == saved \cup {"daily_flow.png"}

\* plt.plot(DataDF[file].Discharge, label = riverName[file]) draws on the
\* figure and saves nothing.
PlotStation(saved) == saved

Call(fn, file, table, out) == [fn |-> fn, file |-> file, table |-> table, out |-> out]

Raise(fn) ==
    /\ raisedIn' = fn
    /\ pc' = [at |-> "raised", i |-> pc.i]

\* The files on disk: each discharge file is unreadable or holds lines,
\* each metrics file is unreadable or holds the stations' Peak Flow.
ScriptDates == {MkDate(2014, 9, 30), ClipStart, ClipEnd, MkDate(2019, 10, 1)}
ScriptTokens == {<<"num", -1>>, <<"num", 7>>}

ScriptFileLines ==
    UNION {{Preamble \o [i \in 1..Len(ds) |-> DataLine(ds[i], t[i][1], t[i][2])] :
               t \in [1..Len(ds) -> ScriptTokens]} :
              ds \in AscendingDates(ScriptDates, MaxScriptRows)}

DischargeFiles ==
    {[readable |-> FALSE, lines |-> <<>>]} \cup
    {[readable |-> TRUE, lines |-> l] : l \in ScriptFileLines}

AnnualFiles ==
    {[readable |-> FALSE, PeakFlow |-> [Tippe |-> <<>>, Wildcat |-> <<>>]],
     [readable |-> TRUE, PeakFlow |-> [Tippe |-> <<5, 5, 3>>, Wildcat |-> <<3, 8>>]]}

Init ==
    /\ args = <<>>
    /\ ret = <<>>
    /\ pc = [at |-> "ReadData", i |-> 1]
    /\ fileSystem \in [Wildcat : DischargeFiles, Tippe : DischargeFiles,
                       Annual : AnnualFiles, Monthly : BOOLEAN]
    /\ DataDF = <<>>
    /\ MissingValues = <<>>
    /\ annual = <<>>
    /\ aamf = <<>>
    /\ exc = <<>>
    /\ written = {}
    /\ calls = <<>>
    /\ raisedIn = ""

\* DataDF[file], MissingValues[file] = ReadData(fileName[file])
Script_ReadData ==
    /\ pc.at = "ReadData"
    /\ LET file == Files[pc.i]
       IN  IF ~fileSystem[file].readable
           THEN /\ Raise("ReadData")
                /\ UNCHANGED <<DataDF, MissingValues, calls>>
           ELSE LET r == ReadData(fileSystem[file].lines)
                IN  /\ DataDF' = Store(DataDF, file, r.DataDF)
                    /\ MissingValues' = Store(MissingValues, file, r.MissingValues)
                    /\ calls' = Append(calls, Call("ReadData", file, <<>>, r.DataDF))
                    /\ pc' = [at |-> "ClipData", i |-> pc.i]
                    /\ UNCHANGED raisedIn
    /\ UNCHANGED <<harnessVars, fileSystem, annual, aamf, exc, written>>

\* DataDF[file], MissingValues[file] = ClipData( DataDF[file], ... )
Script_ClipData ==
    /\ pc.at = "ClipData"
    /\ LET file == Files[pc.i]
           r == ClipData(DataDF[file], ClipStart, ClipEnd)
       IN  /\ DataDF' = StoreClip(DataDF, file, r.DataDF)
           /\ MissingValues' = Store(MissingValues, file, r.MissingValues)
           /\ calls' = Append(calls, Call("ClipData", file, DataDF[file], r.DataDF))
    /\ pc' = [at |-> "plot", i |-> pc.i]
    /\ UNCHANGED <<harnessVars, fileSystem, annual, aamf, exc, written, raisedIn>>

\* plt.plot(...) and the loop's next round or its end.
Script_plot ==
    /\ pc.at = "plot"
    /\ written' = PlotStation(written)
    /\ pc' = IF pc.i < Len(Files) THEN [at |-> "ReadData", i |-> pc.i + 1]
             ELSE [at |-> "daily_flow", i |-> 0]
    /\ UNCHANGED <<harnessVars, fileSystem, DataDF, MissingValues, annual, aamf,
                   exc, calls, raisedIn>>

\* plt.savefig('daily_flow.png', dpi=96)
Script_daily_flow ==
    /\ pc.at = "daily_flow"
    /\ written' = written \cup {"daily_flow.png"}
    /\ pc' = [at |-> "ReadMetricsAnnual", i |-> 0]
    /\ UNCHANGED <<harnessVars, fileSystem, DataDF, MissingValues, annual, aamf,
                   exc, calls, raisedIn>>

\* annual_metrics = ReadMetrics(metricsfile['Annual'])
Script_ReadMetricsAnnual ==
    /\ pc.at = "ReadMetricsAnnual"
    /\ IF ~fileSystem.Annual.readable
       THEN Raise("ReadMetrics") /\ UNCHANGED annual
       ELSE /\ annual' = fileSystem.Annual.PeakFlow
            /\ pc' = [at |-> "ReadMetricsMonthly", i |-> 0]
            /\ UNCHANGED raisedIn
    /\ UNCHANGED <<harnessVars, fileSystem, DataDF, MissingValues, aamf, exc,
                   written, calls>>

\* monthly_metrics = ReadMetrics(metricsfile['Monthly'])
Script_ReadMetricsMonthly ==
    /\ pc.at = "ReadMetricsMonthly"
    /\ IF ~fileSystem.Monthly
       THEN Raise("ReadMetrics")
       ELSE pc' = [at |-> "coefVar", i |-> 0] /\ UNCHANGED raisedIn
    /\ UNCHANGED <<harnessVars, fileSystem, DataDF, MissingValues, annual, aamf,
                   exc, written, calls>>

\* plt.savefig('coefVar.png', dpi=96)
Script_coefVar ==
    /\ pc.at = "coefVar"
    /\ written' = written \cup {"coefVar.png"}
    /\ pc' = [at |-> "Tqmean", i |-> 0]
    /\ UNCHANGED <<harnessVars, fileSystem, DataDF, MissingValues, annual, aamf,
                   exc, calls, raisedIn>>

\* plt.savefig('Tqmean.png', dpi=96)
Script_Tqmean ==
    /\ pc.at = "Tqmean"
    /\ written' = written \cup {"Tqmean.png"}
    /\ pc' = [at |-> "R-Bindex", i |-> 0]
    /\ UNCHANGED <<harnessVars, fileSystem, DataDF, MissingValues, annual, aamf,
                   exc, calls, raisedIn>>

\* plt.savefig('R-Bindex.png', dpi=96)
Script_RBindex ==
    /\ pc.at = "R-Bindex"
    /\ written' = written \cup {"R-Bindex.png"}
    /\ pc' = [at |-> "aamf", i |-> 0]
    /\ UNCHANGED <<harnessVars, fileSystem, DataDF, MissingValues, annual, aamf,
                   exc, calls, raisedIn>>

\* tippe_aamf = GetMonthlyStatistics(DataDF['Tippe']), wildcat_aamf
\* likewise, and plt.savefig('aamf.png', dpi=96)
Script_aamf ==
    /\ pc.at = "aamf"
    /\ aamf' = [Tippe |-> GetMonthlyStatistics(DataDF["Tippe"]),
                Wildcat |-> GetMonthlyStatistics(DataDF["Wildcat"])]
    /\ calls' = calls \o
           <<Call("GetMonthlyStatistics", "Tippe", DataDF["Tippe"], <<>>),
             Call("GetMonthlyStatistics", "Wildcat", DataDF["Wildcat"], <<>>)>>
    /\ written' = written \cup {"aamf.png"}
    /\ pc' = [at |-> "exceedence", i |-> 0]
    /\ UNCHANGED <<harnessVars, fileSystem, DataDF, MissingValues, annual, exc,
                   raisedIn>>

\* tippe_exc, wildcat_exc, plt.scatter and plt.savefig('exceedence.png')
Script_exceedence ==
    /\ pc.at = "exceedence"
    /\ exc' = [Tippe |-> Exceedance(annual.Tippe),
               Wildcat |-> Exceedance(annual.Wildcat)]
    /\ written' = written \cup {"exceedence.png"}
    /\ pc' = [at |-> "done", i |-> 0]
    /\ UNCHANGED <<harnessVars, fileSystem, DataDF, MissingValues, annual, aamf,
                   calls, raisedIn>>

Next ==
    \/ Script_ReadData
    \/ Script_ClipData
    \/ Script_plot
    \/ Script_daily_flow
    \/ Script_ReadMetricsAnnual
    \/ Script_ReadMetricsMonthly
    \/ Script_coefVar
    \/ Script_Tqmean
    \/ Script_RBindex
    \/ Script_aamf
    \/ Script_exceedence

Spec == Init /\ [][Next]_vars

---------------------------------------------------------------------------
(* Properties of ReadData (under SpecReadData). *)

DataLines(lines) == SelectSeq(lines, LAMBDA l : l.kind = "data")

NaRows(T) == {i \in 1..Len(T) : T[i].Discharge.na}

\* C1: the returned table has one row per data line of the file, in file
\* order; a line whose discharge is a number v < 0 is NaN in the table, and
\* a number v >= 0 is in the table unchanged.
C1_NegativeScreened ==
    ret # <<>> =>
        LET L == DataLines(args.lines)
            D == ret[1].DataDF
        IN  /\ Len(D) = Len(L)
            /\ \A i \in 1..Len(L) :
                /\ D[i].Date = L[i].Date
                /\ (L[i].tok = "num" /\ L[i].v < 0) => D[i].Discharge.na
                /\ (L[i].tok = "num" /\ L[i].v >= 0) => D[i].Discharge = Num(L[i].v)

C1_Witness ==
    /\ ret # <<>>
    /\ \E i \in 1..Len(ret[1].DataDF) :
          DataLines(args.lines)[i].v < 0 /\ ret[1].DataDF[i].Discharge.na
    /\ \E i \in 1..Len(ret[1].DataDF) : ret[1].DataDF[i].Discharge = Num(0)
    /\ \E i \in 1..Len(ret[1].DataDF) : ret[1].DataDF[i].Discharge = Num(7)

\* C2: the returned count is the number of NaN Discharge entries of the
\* returned table, which is the number of data lines that are blank/NA,
\* Eqp or negative.
C2_CountAfterScreen ==
    ret # <<>> =>
        LET L == DataLines(args.lines)
        IN  /\ ret[1].MissingValues = Cardinality(NaRows(ret[1].DataDF))
            /\ ret[1].MissingValues =
                   Cardinality({i \in 1..Len(L) :
                       L[i].tok \in {"NA", "Eqp"} \/ (L[i].tok = "num" /\ L[i].v < 0)})

C2_Witness ==
    /\ ret # <<>>
    /\ ret[1].MissingValues = 3
    /\ \E i, j, k \in 1..Len(DataLines(args.lines)) :
          LET L == DataLines(args.lines)
          IN  L[i].tok = "NA" /\ L[j].tok = "Eqp" /\ L[k].tok = "num" /\ L[k].v < 0

---------------------------------------------------------------------------
(* Properties of ClipData (under SpecClipData). *)

InWindow(r) == DateLE(args.startDate, r.Date) /\ DateLE(r.Date, args.endDate)

\* C3: the returned table is exactly the input rows dated within
\* [startDate, endDate], both ends included, in order and unchanged, NaN
\* rows kept, and the returned count is the number of NaN among them.
C3_ClipIsWindow ==
    Len(ret) >= 1 =>
        /\ ret[1].DataDF = SelectSeq(args.DataDF, InWindow)
        /\ ret[1].MissingValues = Cardinality(NaRows(ret[1].DataDF))

C3_Witness ==
    /\ Len(ret) >= 1
    /\ Len(ret[1].DataDF) = 2
    /\ Len(args.DataDF) = 3
    /\ ret[1].DataDF[1].Date = args.startDate
    /\ ret[1].DataDF[2].Date = args.endDate
    /\ ret[1].DataDF[1].Discharge.na
    /\ ret[1].MissingValues = 1

EmptyWindow ==
    \/ DateLT(args.endDate, args.startDate)
    \/ /\ args.DataDF # <<>>
       /\ \/ DateLT(args.endDate, args.DataDF[1].Date)
          \/ DateLT(args.DataDF[Len(args.DataDF)].Date, args.startDate)

\* C4: with startDate > endDate, or the window wholly before the first or
\* wholly after the last date of the table, the call returns the empty
\* table and the count 0.
C4_EmptyWindowEmptyResult ==
    (Len(ret) >= 1 /\ EmptyWindow) => (ret[1].DataDF = <<>> /\ ret[1].MissingValues = 0)

C4_Witness ==
    /\ Len(ret) >= 1
    /\ DateLT(args.endDate, args.startDate)
    /\ \E i \in 1..Len(args.DataDF) :
          /\ args.DataDF[i].Discharge.na
          /\ DateLE(args.endDate, args.DataDF[i].Date)
          /\ DateLE(args.DataDF[i].Date, args.startDate)
    /\ ret[1].DataDF = <<>>
    /\ ret[1].MissingValues = 0

\* C5: clipping the clipped table to the same window returns the same
\* table and the same count.
C5_ClipIdempotent ==
    Len(ret) = 2 => ret[2] = ret[1]

C5_Witness ==
    /\ Len(ret) = 2
    /\ ret[1].DataDF # <<>>
    /\ Len(ret[1].DataDF) < Len(args.DataDF)
    /\ ret[1].MissingValues > 0
    /\ ret[2] = ret[1]

---------------------------------------------------------------------------
(* Properties of GetMonthlyStatistics (under SpecMonthly). *)

RECURSIVE SumOver(_, _)
SumOver(S, f) ==
    IF S = {} THEN 0
    ELSE LET x == CHOOSE x \in S : TRUE IN f[x] + SumOver(S \ {x}, f)

\* The rows of table T with a present discharge in month m of year y.
PresentIn(T, y, m) ==
    {i \in 1..Len(T) : T[i].Date.y = y /\ T[i].Date.m = m /\ ~T[i].Discharge.na}

\* The years of T with a present discharge in calendar month m.
YearsWith(T, m) == {y \in {T[i].Date.y : i \in 1..Len(T)} : PresentIn(T, y, m) # {}}

\* Whether q is the mean over the years Y of the bucket means of calendar
\* month m: sum over y of (sum of the bucket / size of the bucket) = q * |Y|,
\* with the fractions cleared by the product P of the bucket sizes.
IsMeanOfMeans(T, m, q) ==
    LET Y == YearsWith(T, m)
        size == [y \in Y |-> Cardinality(PresentIn(T, y, m))]
        total == [y \in Y |-> SumOver(PresentIn(T, y, m), [i \in 1..Len(T) |-> T[i].Discharge.v])]
        RECURSIVE Prod(_)
        Prod(S) == IF S = {} THEN 1
                   ELSE LET x == CHOOSE x \in S : TRUE IN size[x] * Prod(S \ {x})
        P == Prod(Y)
    IN  /\ ~q.na
        /\ q.den * SumOver(Y, [y \in Y |-> total[y] * (P \div size[y])])
              = q.num * P * Cardinality(Y)

OutMonths == {ret[1][i].month : i \in 1..Len(ret[1])}

NoPresent(T, m) == \A i \in 1..Len(T) : T[i].Date.m = m => T[i].Discharge.na

\* C7 as claimed: a calendar month with no present discharge in any year
\* has no row in the output.
C7_EmptyMonthOmitted ==
    ret # <<>> => \A m \in 1..12 : NoPresent(args.DataDF, m) => m \notin OutMonths

\* Whether month m of some year lies between the first and the last row's
\* month, both included.
InSpan(T, m) ==
    /\ T # <<>>
    /\ \E y \in T[1].Date.y..T[Len(T)].Date.y :
          /\ DateLE(MkDate(T[1].Date.y, T[1].Date.m, 1), MkDate(y, m, 1))
          /\ DateLE(MkDate(y, m, 1), MkDate(T[Len(T)].Date.y, T[Len(T)].Date.m, 1))

\* C7 as amended: a calendar month has a row exactly when a month of that
\* number lies between the first and the last row's month (both
\* included); its value is NaN, not zero, exactly when the month has no
\* present discharge.
C7_EmptyMonthInSpanIsNaN ==
    ret # <<>> =>
        /\ \A m \in 1..12 : m \in OutMonths <=> InSpan(args.DataDF, m)
        /\ \A i \in 1..Len(ret[1]) :
              ret[1][i].Discharge.na <=> NoPresent(args.DataDF, ret[1][i].month)

\* Rows in December and February only: January has a NaN row, March has
\* none.
C7_Witness ==
    /\ ret # <<>>
    /\ Len(args.DataDF) = 2
    /\ args.DataDF[1].Date.m = 12 /\ ~args.DataDF[1].Discharge.na
    /\ args.DataDF[2].Date.m = 2 /\ ~args.DataDF[2].Discharge.na
    /\ \E i \in 1..Len(ret[1]) : ret[1][i].month = 1 /\ ret[1][i].Discharge.na
    /\ 3 \notin OutMonths

---------------------------------------------------------------------------
(* Properties of figure 6 (under SpecExceedance). *)

\* Twice the average descending rank of p among the peaks: the largest has
\* rank 1, equal peaks share the mean of their ranks.
DescRank2(peakFlow, p) ==
    2 * Cardinality({j \in 1..Len(peakFlow) : peakFlow[j] > p})
      + Cardinality({j \in 1..Len(peakFlow) : peakFlow[j] = p}) + 1

\* C10: every peak p is plotted at (average descending rank of p)/(n+1),
\* so equal peaks are plotted at the same probability.
C10_AverageDescendingRank ==
    ret # <<>> =>
        /\ Len(ret[1]) = Len(args.peakFlow)
        /\ \A i \in 1..Len(ret[1]) :
              ret[1][i].num * 2 * (Len(args.peakFlow) + 1)
                  = DescRank2(args.peakFlow, ret[1][i].p) * ret[1][i].den
        /\ \A i, j \in 1..Len(ret[1]) :
              ret[1][i].p = ret[1][j].p => ret[1][i].num = ret[1][j].num

\* The same with the peaks all different.
C10_DistinctPeaks ==
    (ret # <<>> /\ \A i, j \in 1..Len(args.peakFlow) :
                      i # j => args.peakFlow[i] # args.peakFlow[j]) =>
        \A i \in 1..Len(ret[1]) :
            ret[1][i].num * 2 * (Len(args.peakFlow) + 1)
                = DescRank2(args.peakFlow, ret[1][i].p) * ret[1][i].den

---------------------------------------------------------------------------
(* Properties of the script (under Spec). *)

Images == {"daily_flow.png", "coefVar.png", "Tqmean.png", "R-Bindex.png",
           "aamf.png", "exceedence.png"}

\* C8: once ReadData has failed for a station's file the run is over (no
\* statement runs after it) and none of the six images is written.
C8_ReadFailureWritesNothing ==
    raisedIn = "ReadData" =>
        /\ pc.at = "raised"
        /\ written \cap Images = {}
        /\ ~ENABLED Next

\* The second station's file fails after the first was read, clipped and
\* plotted.
C8_Witness ==
    /\ raisedIn = "ReadData"
    /\ pc.i = 2
    /\ "Wildcat" \in DOMAIN DataDF
    /\ DataDF["Wildcat"] # <<>>
    /\ fileSystem.Annual.readable /\ fileSystem.Monthly

\* The table ReadData returned for a station.
ReadTable(file) ==
    LET k == CHOOSE k \in 1..Len(calls) : calls[k].fn = "ReadData" /\ calls[k].file = file
    IN  calls[k].out

\* C9 as claimed: the table ReadData returned for a station is the table
\* passed to ClipData and the table passed to GetMonthlyStatistics.
C9_ReaderFeedsClipperAndAggregator ==
    \A k \in 1..Len(calls) :
        calls[k].fn \in {"ClipData", "GetMonthlyStatistics"} =>
            calls[k].table = ReadTable(calls[k].file)

InClipWindow(r) == DateLE(ClipStart, r.Date) /\ DateLE(r.Date, ClipEnd)

\* C9 as amended: the table ReadData returned is the table passed to
\* ClipData; the table passed to GetMonthlyStatistics is the clipped one,
\* the rows of ReadData's table dated 2014-10-01 to 2019-09-30.
C9_ClipperFeedsAggregator ==
    \A k \in 1..Len(calls) :
        /\ calls[k].fn = "ClipData" => calls[k].table = ReadTable(calls[k].file)
        /\ calls[k].fn = "GetMonthlyStatistics" =>
              calls[k].table = SelectSeq(ReadTable(calls[k].file), InClipWindow)

C9_Witness ==
    /\ pc.at = "done"
    /\ \A f \in {"Tippe", "Wildcat"} :
          \E k \in 1..Len(calls) :
              /\ calls[k].fn = "GetMonthlyStatistics"
              /\ calls[k].file = f
              /\ calls[k].table # <<>>
              /\ Len(calls[k].table) < Len(ReadTable(f))

====
